---- MODULE Spec2Model ----
(***************************************************************************)
(* PostHogReplicate: the PostHog-instrumented extension of the Replicate   *)
(* SDK.  The wrapper delegates run, stream, predictions.create and         *)
(* predictions.get to the underlying client and hands one $ai_generation   *)
(* event per operation to the PostHog collector.                           *)
(*                                                                         *)
(* JavaScript values are tagged records: [type |-> "undefined"],           *)
(* [type |-> "string", v |-> "x"], [type |-> "object", class, fields].     *)
(* An object's own keys are the DOMAIN of its `fields` function, so a key  *)
(* that is present with the value undefined differs from an absent key,    *)
(* as it does for object spread and Object.assign.                         *)
(***************************************************************************)
EXTENDS Integers, Sequences, FiniteSets, TLC

VARIABLES
    predictionTrackingParams, \* Map<string, PostHogTrackingOptions> of the instance
    calls,                    \* frames of the calls in flight and of the call settled last
    nextCall,                 \* number of calls started so far
    captureCount,             \* number of posthog.capture invocations
    completedCount,           \* number of calls that ran to completion
    now,                      \* performance.now()
    upstreamJobs,             \* prediction ids that exist at the Replicate API
    createdWith,              \* id -> posthogParams of the create call that returned it
    terminalSeen,             \* ids for which a get returned a terminal status
    workload                  \* the pattern of use the callers follow

vars == <<predictionTrackingParams, calls, nextCall, captureCount,
          completedCount, now, upstreamJobs, createdWith, terminalSeen, workload>>

(***************************************************************************)
(* Bounds of the model.                                                    *)
(***************************************************************************)
MaxCalls == 3
MaxInFlight == 2
MaxChunks == 2
MaxTime == 1

(***************************************************************************)
(* JavaScript values.                                                      *)
(***************************************************************************)
Undefined == [type |-> "undefined"]
Null == [type |-> "null"]
Str(s) == [type |-> "string", v |-> s]
Num(n) == [type |-> "number", v |-> n]
Bool(b) == [type |-> "boolean", v |-> b]
Obj(f) == [type |-> "object", class |-> "Object", fields |-> f]
ErrorObj(f) == [type |-> "object", class |-> "Error", fields |-> f]
Arr(s) == [type |-> "object", class |-> "Array", fields |-> s]
EmptyObj == Obj(<<>>)

\* ToBoolean(v): the values JavaScript treats as true in a condition
Truthy(v) ==
    CASE v.type = "undefined" -> FALSE
      [] v.type = "null" -> FALSE
      [] v.type = "boolean" -> v.v
      [] v.type = "number" -> v.v # 0
      [] v.type = "string" -> v.v # ""
      [] OTHER -> TRUE

\* a || b
OrElse(a, b) == IF Truthy(a) THEN a ELSE b

\* o.k and o?.k: undefined when o is no object or has no own key k
Prop(o, k) ==
    IF o.type = "object" /\ k \in DOMAIN o.fields THEN o.fields[k] ELSE Undefined

\* { ...a, ...b }: every own key of b overwrites, whatever its value
Spread(a, b) == Obj(b.fields @@ a.fields)

\* String(v) for the values that are neither objects nor strings
StringOf(v) ==
    CASE v.type = "undefined" -> "undefined"
      [] v.type = "null" -> "null"
      [] v.type = "boolean" -> (IF v.v THEN "true" ELSE "false")
      [] v.type = "number" -> ToString(v.v)
      [] v.type = "string" -> v.v
      [] OTHER -> "[object Object]"

(***************************************************************************)
(* types.ts                                                                *)
(***************************************************************************)
PROVIDER == "replicate"
BASE_URL == "https://api.replicate.com"
EVENT_NAME == "$ai_generation"

\* keyof PostHogTrackingOptions
TrackingKeys ==
    {"posthogDistinctId", "posthogTraceId", "posthogProperties",
     "posthogGroups", "posthogPrivacyMode"}

(***************************************************************************)
(* capture.ts                                                              *)
(***************************************************************************)
formatInput(input) == Arr(<<Obj([role |-> Str("user"), content |-> input])>>)

formatOutput(output) == Arr(<<Obj([role |-> Str("assistant"), content |-> output])>>)

formatError(error) ==
    IF error.type = "object" /\ error.class = "Error"
    THEN Obj([name |-> Prop(error, "name"),
              message |-> Prop(error, "message"),
              stack |-> Prop(error, "stack")])
    ELSE IF error.type = "string" THEN error
    ELSE IF error.type = "object" THEN error
    ELSE Str(StringOf(error))

\* properties[key] = value
SetKey(properties, key, value) == (key :> value) @@ properties

\* Faulty variant: a key already generated keeps its value
Assign_keepingGenerated(properties, source) == properties @@ source.fields

\* Object.assign(properties, source): every own key of source overwrites
Assign(properties, source) == source.fields @@ properties

\* The properties object captureGeneration builds, statement by statement
captureProperties(options) ==
    LET p0 == ("$ai_provider" :> Str(PROVIDER))
              @@ ("$ai_model" :> options.model)
              @@ ("$ai_latency" :> options.latency)
              @@ ("$ai_http_status" :> options.httpStatus)
              @@ ("$ai_base_url" :> Str(BASE_URL))
              @@ ("$ai_is_error" :> options.isError)
        p1 == IF Truthy(options.isError) /\ Truthy(options.error)
              THEN SetKey(p0, "$ai_error", formatError(options.error))
              ELSE p0
        p2 == IF ~Truthy(options.privacyMode) /\ options.input # Undefined
              THEN SetKey(p1, "$ai_input", formatInput(options.input))
              ELSE p1
        p3 == IF ~Truthy(options.privacyMode) /\ options.output # Undefined
              THEN SetKey(p2, "$ai_output_choices", formatOutput(options.output))
              ELSE p2
        p4 == IF Truthy(options.traceId)
              THEN SetKey(p3, "$ai_trace_id", options.traceId)
              ELSE p3
        p5 == IF options.stream # Undefined
              THEN SetKey(p4, "$ai_stream", options.stream)
              ELSE p4
        p6 == IF Truthy(options.predictionId)
              THEN SetKey(p5, "$ai_prediction_id", options.predictionId)
              ELSE p5
    IN  IF Truthy(options.customProperties)
        THEN Assign(p6, options.customProperties)
        ELSE p6

\* Faulty variant: the default is used whatever options.distinctId is, and
\* the groups are left out
captureGeneration_anonymous(options) ==
    [distinctId |-> Str("anonymous"),
     event |-> EVENT_NAME,
     properties |-> captureProperties(options),
     groups |-> Undefined]

\* The argument captureGeneration hands to posthog.capture
captureGeneration(options) ==
    [distinctId |-> OrElse(options.distinctId, Str("anonymous")),
     event |-> EVENT_NAME,
     properties |-> captureProperties(options),
     groups |-> options.groups]

\* createTimer(): the start instant; the returned closure is Elapsed
createTimer == now

\* Faulty variant: the timer subtracts the wrong way round
Elapsed_reversed(start, t) == Num(start - t)

Elapsed(start, t) == Num(t - start)

(***************************************************************************)
(* The wrapper (PostHogReplicate)                                          *)
(***************************************************************************)
\* Faulty variant: the options are handed on as they came
extractPostHogParams_keepingAll(options) ==
    [posthogParams |-> Obj([k \in TrackingKeys |-> Prop(options, k)]),
     replicateOptions |-> options]

extractPostHogParams(options) ==
    [posthogParams |-> Obj([k \in TrackingKeys |-> Prop(options, k)]),
     replicateOptions |->
        Obj([k \in DOMAIN options.fields \ TrackingKeys |-> options.fields[k]])]

extractHttpStatus(err) ==
    IF Truthy(err) /\ err.type = "object"
    THEN IF Prop(err, "status").type = "number" THEN Prop(err, "status")
         ELSE IF Prop(err, "statusCode").type = "number" THEN Prop(err, "statusCode")
         ELSE IF Truthy(Prop(err, "response"))
                 /\ Prop(err, "response").type = "object"
                 /\ Prop(Prop(err, "response"), "status").type = "number"
              THEN Prop(Prop(err, "response"), "status")
              ELSE Undefined
    ELSE Undefined

\* Own keys of a value under object spread: none unless it is an object
Fields(o) == IF o.type = "object" THEN o.fields ELSE <<>>

\* The try/catch of every wrapper method: the status reported for a thrown value
caughtStatus(err) == OrElse(extractHttpStatus(err), Num(500))

(***************************************************************************)
(* What callers pass and what the underlying client answers.               *)
(***************************************************************************)
JobIds == <<"pred_1", "pred_2">>

\* The predictionId arguments callers pass to predictions.get
GetTargets == {Str(JobIds[i]) : i \in DOMAIN JobIds}

Input == Obj([image |-> Str("https://example.com/image.jpg")])
StreamInput == Obj([prompt |-> Str("Hello")])

\* Tracking options a caller may put into an options bag
TrackNone == <<>>
TrackFull ==
    [posthogDistinctId |-> Str("user_123"),
     posthogTraceId |-> Str("trace_abc"),
     posthogProperties |-> Obj([custom_field |-> Str("custom_value")]),
     posthogGroups |-> Obj([company |-> Str("acme_corp")])]
TrackPrivate == [posthogPrivacyMode |-> Bool(TRUE)]
\* custom properties that reuse keys the wrapper generates
CallerProperties ==
    Obj(("$ai_input" :> Str("caller"))
        @@ ("$ai_is_error" :> Str("caller"))
        @@ ("$ai_http_status" :> Str("caller"))
        @@ ("$ai_stream" :> Str("caller"))
        @@ ("$ai_async_prediction" :> Str("caller"))
        @@ ("$ai_prediction_status" :> Str("caller"))
        @@ ("$ai_output_choices" :> Str("caller"))
        @@ ("$ai_prediction_id" :> Str("caller"))
        @@ ("$ai_error" :> Str("caller"))
        @@ ("$ai_model" :> Str("caller")))
TrackOverride ==
    [posthogDistinctId |-> Str("user_456"),
     posthogProperties |-> CallerProperties,
     posthogPrivacyMode |-> Bool(TRUE)]
TrackingBags == {TrackNone, TrackFull, TrackPrivate, TrackOverride}

RunModel == Str("openai/clip")
StreamModel == Str("meta/llama-2-70b-chat")

\* RunOptions: input, tracking options, a pass-through key
RunOptionsSet ==
    {Obj(t @@ [input |-> Input]) : t \in TrackingBags}
    \cup {Obj(TrackFull @@ [input |-> Input, webhook |-> Str("https://hook")])}

\* StreamOptions
StreamOptionsSet ==
    {Obj(t @@ [input |-> StreamInput]) : t \in TrackingBags}
    \cup {Obj(TrackFull @@ [input |-> StreamInput, webhook |-> Str("https://hook")])}

\* PredictionCreateOptions: model, version or neither
CreateOptionsSet ==
    {Obj(t @@ [model |-> Str("stability-ai/sdxl"), input |-> Input]) : t \in TrackingBags}
    \cup {Obj([version |-> Str("v1"), input |-> Input]), Obj([input |-> Input])}

\* PredictionGetOptions, or undefined when the caller passes none
GetOptionsSet ==
    {Undefined,
     Obj([signal |-> Str("AbortSignal")]),
     Obj([posthogDistinctId |-> Str("user_789"), signal |-> Str("AbortSignal")]),
     Obj([posthogProperties |-> Obj([get_field |-> Str("get_value")])]),
     Obj([posthogPrivacyMode |-> Bool(TRUE)])}

\* Values the underlying client rejects with
ErrRateLimit ==
    ErrorObj([name |-> Str("Error"), message |-> Str("API rate limit exceeded"),
              stack |-> Str("Error: API rate limit exceeded")])
ErrApi ==
    ErrorObj([name |-> Str("ApiError"), message |-> Str("Too Many Requests"),
              stack |-> Str("ApiError: Too Many Requests"),
              response |-> Obj([status |-> Num(429)])])
ErrStatus == Obj([status |-> Num(404), statusCode |-> Num(400)])
\* a transport failure: status 0, no response
ErrZero == Obj([status |-> Num(0), statusCode |-> Num(503)])
ThrownValues == {ErrRateLimit, ErrApi, ErrStatus, ErrZero, Undefined}

RunResult == Obj([result |-> Str("test output")])

\* Server-sent events of the underlying stream
Chunk(event, data) == Obj([event |-> Str(event), data |-> Str(data)])
ChunkSet == {Chunk("output", "Hello "), Chunk("output", "World"), Chunk("logs", "booting")}

\* Prediction records predictions.get may resolve with for an existing id
GetRecords(id) ==
    {Obj([id |-> Str(id)]),
     Obj([id |-> Str(id), status |-> Str("starting"), model |-> Str("stability-ai/sdxl"),
          version |-> Str("v1"), input |-> Input]),
     Obj([id |-> Str(id), status |-> Str("processing"), version |-> Str("v1"),
          input |-> Input, output |-> Str("partial")]),
     Obj([id |-> Str(id), status |-> Str("succeeded"), model |-> Str("stability-ai/sdxl"),
          input |-> Input, output |-> Str("image.png")]),
     Obj([id |-> Str(id), status |-> Str("failed"), version |-> Str("v1"),
          input |-> Input, error |-> Str("out of memory")]),
     Obj([id |-> Str(id), status |-> Str("canceled"), input |-> Input,
          output |-> Str("partial")])}

(***************************************************************************)
(* Workloads: what the callers of one wrapper instance do in a behaviour.  *)
(* The first three issue one operation at a time with every input above;  *)
(* the concurrent ones keep several calls in flight, with the inputs of    *)
(* LeanInputs: "interleaved" is one batch of overlapping runs and streams, *)
(* "polling" creates and gets with overlapping calls.                      *)
(***************************************************************************)
Workloads == {"run", "stream", "async", "interleaved", "polling"}

Concurrent == {"interleaved", "polling"}

OpsOf(w) ==
    CASE w = "run" -> {"run"}
      [] w = "stream" -> {"stream"}
      [] w = "async" -> {"create", "get", "cancel", "list"}
      [] w = "interleaved" -> {"run", "stream"}
      [] w = "polling" -> {"create", "get"}

LeanInputs ==
    {Obj(TrackNone @@ [input |-> Input]),
     Obj(TrackFull @@ [input |-> Input]),
     Obj(TrackFull @@ [input |-> StreamInput]),
     Obj(TrackNone @@ [model |-> Str("stability-ai/sdxl"), input |-> Input]),
     Obj(TrackFull @@ [model |-> Str("stability-ai/sdxl"), input |-> Input]),
     Undefined,
     Obj([posthogDistinctId |-> Str("user_789"), signal |-> Str("AbortSignal")]),
     ErrApi,
     Chunk("output", "Hello "),
     Str(JobIds[1])}
    \cup {r \in GetRecords(JobIds[1]) :
             Prop(r, "status") \in {Str("processing"), Str("succeeded")}}

\* The members of an input set the workload draws from
Offered(S) == IF workload \in Concurrent THEN S \cap LeanInputs ELSE S

(***************************************************************************)
(* Execution frames.                                                       *)
(***************************************************************************)
Pending == [kind |-> "pending", value |-> Undefined]

NewFrame(op, model, options) ==
    [op |-> op,
     pc |-> "awaiting",
     model |-> model,                 \* the model argument of run and stream
     options |-> options,             \* the options argument
     predictionId |-> Undefined,      \* the predictionId argument of get
     posthogParams |-> Undefined,
     replicateOptions |-> Undefined,
     storedParams |-> Undefined,
     terminalAtStart |-> FALSE,       \* get: a terminal status was seen for the id before
     getElapsed |-> 0,                \* start instant captured by createTimer
     collectedOutput |-> "",
     upstream |-> <<>>,               \* chunks the underlying stream has produced
     yielded |-> <<>>,                \* chunks handed to the consumer
     client |-> Pending,              \* how the underlying call settled
     outcome |-> Pending,             \* what the caller observes
     events |-> <<>>]                 \* events this call handed to posthog.capture

InFlight == {c \in DOMAIN calls : calls[c].pc # "done"}

\* The frames still in flight: a settled frame is kept for one state only
Live == [c \in InFlight |-> calls[c]]

\* A caller following the workload may start operation op now
CanStart(op) ==
    /\ op \in OpsOf(workload)
    /\ nextCall < (IF workload = "interleaved" THEN MaxInFlight ELSE MaxCalls)
    /\ Cardinality(InFlight) < (IF workload \in Concurrent THEN MaxInFlight ELSE 1)

\* Faulty variant: the tracking parameters are kept in a field of the
\* instance, which every call that starts overwrites
Start_sharingParams(frame) ==
    /\ CanStart(frame.op)
    /\ nextCall' = nextCall + 1
    /\ calls' = [c \in InFlight |-> [calls[c] EXCEPT !.posthogParams = frame.posthogParams]]
                 @@ ((nextCall + 1) :> frame)
    /\ now' = IF workload \in Concurrent THEN now + 1 ELSE now

\* In the concurrent workloads the clock advances between one call's start
\* and the next; in the others Tick advances it at any moment
Start(frame) ==
    /\ CanStart(frame.op)
    /\ nextCall' = nextCall + 1
    /\ calls' = Live @@ ((nextCall + 1) :> frame)
    /\ now' = IF workload \in Concurrent THEN now + 1 ELSE now

Step(c, frame) == calls' = [Live EXCEPT ![c] = frame]

\* Faulty variant: the capture sits in the try block, so a call that throws
\* settles without an event
Settle_captureInTry(f, client, outcome, captureOptions) ==
    [f EXCEPT !.pc = "done",
              !.client = client,
              !.outcome = outcome,
              !.events = IF outcome.kind = "threw" THEN @
                         ELSE Append(@, captureGeneration(captureOptions))]

\* The frame after its finally block has captured and the call has settled
Settle(f, client, outcome, captureOptions) ==
    [f EXCEPT !.pc = "done",
              !.client = client,
              !.outcome = outcome,
              !.events = Append(@, captureGeneration(captureOptions))]

Finish(c, frame) ==
    /\ Step(c, frame)
    /\ captureCount' = captureCount + Len(frame.events) - Len(calls[c].events)
    /\ completedCount' = completedCount + 1

Returned(v) == [kind |-> "returned", value |-> v]
Threw(v) == [kind |-> "threw", value |-> v]

\* The frame of a method after extractPostHogParams and createTimer
Enter(f) ==
    LET e == extractPostHogParams(f.options)
    IN  [f EXCEPT !.posthogParams = e.posthogParams,
                  !.replicateOptions = e.replicateOptions,
                  !.getElapsed = createTimer]

\* Faulty variant: posthogPrivacyMode is not handed on to captureGeneration
TrackingOf_withoutPrivacy(posthogParams, customProperties) ==
    [distinctId |-> Prop(posthogParams, "posthogDistinctId"),
     traceId |-> Prop(posthogParams, "posthogTraceId"),
     customProperties |-> customProperties,
     groups |-> Prop(posthogParams, "posthogGroups"),
     privacyMode |-> Undefined]

\* The tracking fields every captureGeneration call takes from posthogParams
TrackingOf(posthogParams, customProperties) ==
    [distinctId |-> Prop(posthogParams, "posthogDistinctId"),
     traceId |-> Prop(posthogParams, "posthogTraceId"),
     customProperties |-> customProperties,
     groups |-> Prop(posthogParams, "posthogGroups"),
     privacyMode |-> Prop(posthogParams, "posthogPrivacyMode")]

(***************************************************************************)
(* run                                                                     *)
(***************************************************************************)
\* Faulty variant: run passes no stream flag
runCapture_withoutStream(f, output, isError, error, httpStatus) ==
    [model |-> f.model,
     latency |-> Elapsed(f.getElapsed, now),
     httpStatus |-> httpStatus,
     isError |-> isError,
     error |-> error,
     input |-> Prop(f.replicateOptions, "input"),
     output |-> output,
     stream |-> Undefined,
     predictionId |-> Undefined]
    @@ TrackingOf(f.posthogParams, Prop(f.posthogParams, "posthogProperties"))

\* The options of the captureGeneration call in run's finally block
runCapture(f, output, isError, error, httpStatus) ==
    [model |-> f.model,
     latency |-> Elapsed(f.getElapsed, now),
     httpStatus |-> httpStatus,
     isError |-> isError,
     error |-> error,
     input |-> Prop(f.replicateOptions, "input"),
     output |-> output,
     stream |-> Bool(FALSE),
     predictionId |-> Undefined]
    @@ TrackingOf(f.posthogParams, Prop(f.posthogParams, "posthogProperties"))

\* run from the settlement of super.run to the settlement of its own promise
run(f, settled) ==
    IF settled.kind = "returned"
    THEN Settle(f, settled, Returned(settled.value),
                runCapture(f, settled.value, Bool(FALSE), Undefined, Num(200)))
    ELSE Settle(f, settled, Threw(settled.value),
                runCapture(f, Undefined, Bool(TRUE), settled.value,
                           caughtStatus(settled.value)))

RunCall ==
    /\ \E options \in Offered(RunOptionsSet) : Start(Enter(NewFrame("run", RunModel, options)))
    /\ UNCHANGED <<predictionTrackingParams, captureCount, completedCount,
                   upstreamJobs, terminalSeen, createdWith, workload>>

RunReturn ==
    \E c \in InFlight :
        /\ calls[c].op = "run"
        /\ Finish(c, run(calls[c], Returned(RunResult)))
        /\ UNCHANGED <<predictionTrackingParams, nextCall, now, upstreamJobs,
                       terminalSeen, createdWith, workload>>

RunThrow ==
    \E c \in InFlight, err \in Offered(ThrownValues) :
        /\ calls[c].op = "run"
        /\ Finish(c, run(calls[c], Threw(err)))
        /\ UNCHANGED <<predictionTrackingParams, nextCall, now, upstreamJobs,
                       terminalSeen, createdWith, workload>>

(***************************************************************************)
(* stream                                                                  *)
(***************************************************************************)
\* Faulty variant: the collected output is not passed on
streamCapture_withoutOutput(f, isError, error, httpStatus) ==
    [model |-> f.model,
     latency |-> Elapsed(f.getElapsed, now),
     httpStatus |-> httpStatus,
     isError |-> isError,
     error |-> error,
     input |-> Prop(f.replicateOptions, "input"),
     output |-> Undefined,
     stream |-> Bool(TRUE),
     predictionId |-> Undefined]
    @@ TrackingOf(f.posthogParams, Prop(f.posthogParams, "posthogProperties"))

\* The options of the captureGeneration call in stream's finally block
streamCapture(f, isError, error, httpStatus) ==
    [model |-> f.model,
     latency |-> Elapsed(f.getElapsed, now),
     httpStatus |-> httpStatus,
     isError |-> isError,
     error |-> error,
     input |-> Prop(f.replicateOptions, "input"),
     output |-> OrElse(Str(f.collectedOutput), Undefined),
     stream |-> Bool(TRUE),
     predictionId |-> Undefined]
    @@ TrackingOf(f.posthogParams, Prop(f.posthogParams, "posthogProperties"))

\* Faulty variant: only output-tagged events are yielded
relay_yieldingOutputOnly(f, event) ==
    [f EXCEPT !.pc = "yielded",
              !.upstream = Append(@, event),
              !.collectedOutput =
                  IF Prop(event, "event") = Str("output")
                  THEN @ \o Prop(event, "data").v
                  ELSE @,
              !.yielded = IF Prop(event, "event") = Str("output")
                          THEN Append(@, event)
                          ELSE @]

\* Faulty variant: the data of every event is collected, whatever its tag
relay_collectingAll(f, event) ==
    [f EXCEPT !.pc = "yielded",
              !.upstream = Append(@, event),
              !.collectedOutput = @ \o Prop(event, "data").v,
              !.yielded = Append(@, event)]

\* The body of the for-await loop for one upstream event
relay(f, event) ==
    [f EXCEPT !.pc = "yielded",
              !.upstream = Append(@, event),
              !.collectedOutput =
                  IF Prop(event, "event") = Str("output")
                  THEN @ \o Prop(event, "data").v
                  ELSE @,
              !.yielded = Append(@, event)]

\* Faulty variant: the capture follows the loop instead of sitting in a
\* finally block, so an upstream error reaches the consumer first
streamLeave_withoutFinally(f, how, err) ==
    IF how = "threw"
    THEN [f EXCEPT !.pc = "done", !.client = Threw(err), !.outcome = Threw(err)]
    ELSE Settle(f, [kind |-> how, value |-> Undefined],
                [kind |-> how, value |-> Undefined],
                streamCapture(f, Bool(FALSE), Undefined, Num(200)))

\* The generator leaves its body: the upstream ended ("ended"), the upstream
\* raised ("threw"), or the consumer closed it at a yield ("closed")
streamLeave(f, how, err) ==
    IF how = "threw"
    THEN Settle(f, Threw(err), Threw(err),
                streamCapture(f, Bool(TRUE), err, caughtStatus(err)))
    ELSE Settle(f, [kind |-> how, value |-> Undefined],
                [kind |-> how, value |-> Undefined],
                streamCapture(f, Bool(FALSE), Undefined, Num(200)))

\* Faulty variant: the body is not resumed after its yield
resume_parked(f) ==
    IF f.pc = "created"
    THEN [Enter(f) EXCEPT !.pc = "awaiting"]
    ELSE f

\* next(): the body starts (first call) or resumes after its yield, and
\* suspends waiting for the next upstream event; on a generator that has
\* completed no statement runs
resume(f) ==
    IF f.pc = "created"
    THEN [Enter(f) EXCEPT !.pc = "awaiting"]
    ELSE IF f.pc = "done"
    THEN f
    ELSE [f EXCEPT !.pc = "awaiting"]

\* stream(model, options) returns the generator object; no statement has run
StreamCall ==
    /\ \E options \in Offered(StreamOptionsSet) :
           Start([NewFrame("stream", StreamModel, options) EXCEPT !.pc = "created"])
    /\ UNCHANGED <<predictionTrackingParams, captureCount, completedCount,
                   upstreamJobs, terminalSeen, createdWith, workload>>

StreamPull ==
    \E c \in DOMAIN calls :
        /\ calls[c].op = "stream"
        /\ calls[c].pc \in {"created", "yielded", "done"}
        /\ IF c \in InFlight
           THEN Step(c, resume(calls[c]))
           ELSE calls' = [calls EXCEPT ![c] = resume(calls[c])]
        /\ UNCHANGED <<predictionTrackingParams, nextCall, captureCount,
                       completedCount, now, upstreamJobs, terminalSeen, createdWith, workload>>

StreamChunk ==
    \E c \in InFlight, event \in Offered(ChunkSet) :
        /\ calls[c].op = "stream"
        /\ calls[c].pc = "awaiting"
        /\ Len(calls[c].upstream) < MaxChunks
        /\ Step(c, relay(calls[c], event))
        /\ UNCHANGED <<predictionTrackingParams, nextCall, captureCount,
                       completedCount, now, upstreamJobs, terminalSeen, createdWith, workload>>

StreamEnd ==
    \E c \in InFlight :
        /\ calls[c].op = "stream"
        /\ calls[c].pc = "awaiting"
        /\ Finish(c, streamLeave(calls[c], "ended", Undefined))
        /\ UNCHANGED <<predictionTrackingParams, nextCall, now, upstreamJobs,
                       terminalSeen, createdWith, workload>>

StreamThrow ==
    \E c \in InFlight, err \in Offered(ThrownValues) :
        /\ calls[c].op = "stream"
        /\ calls[c].pc = "awaiting"
        /\ Finish(c, streamLeave(calls[c], "threw", err))
        /\ UNCHANGED <<predictionTrackingParams, nextCall, now, upstreamJobs,
                       terminalSeen, createdWith, workload>>

\* return() at a yield inside the try block: the finally block runs
StreamClose ==
    \E c \in InFlight :
        /\ calls[c].op = "stream"
        /\ calls[c].pc = "yielded"
        /\ Finish(c, streamLeave(calls[c], "closed", Undefined))
        /\ UNCHANGED <<predictionTrackingParams, nextCall, now, upstreamJobs,
                       terminalSeen, createdWith, workload>>

\* return() on a generator that never started: its body never runs
StreamDrop ==
    \E c \in InFlight :
        /\ calls[c].op = "stream"
        /\ calls[c].pc = "created"
        /\ Step(c, [calls[c] EXCEPT !.pc = "done",
                                    !.outcome = [kind |-> "closed", value |-> Undefined]])
        /\ UNCHANGED <<predictionTrackingParams, nextCall, captureCount,
                       completedCount, now, upstreamJobs, terminalSeen, createdWith, workload>>

(***************************************************************************)
(* predictions.create                                                      *)
(***************************************************************************)
\* Faulty variant: the parameters are stored whether or not any is supplied
someTrackingParam_always(posthogParams) == TRUE

\* Object.values(posthogParams).some(v => v !== undefined)
someTrackingParam(posthogParams) ==
    \E k \in DOMAIN posthogParams.fields : posthogParams.fields[k] # Undefined

\* The Map after the try block of createPrediction
storeOnCreate(map, predictionId, posthogParams) ==
    IF Truthy(predictionId) /\ someTrackingParam(posthogParams)
    THEN (predictionId.v :> posthogParams) @@ map
    ELSE map

\* Faulty variant: the custom properties are passed on without the flag
createCapture_unflagged(f, prediction, isError, error, httpStatus) ==
    [model |-> Str(StringOf(OrElse(OrElse(Prop(f.replicateOptions, "model"),
                                          Prop(f.replicateOptions, "version")),
                                   Str("unknown")))),
     latency |-> Elapsed(f.getElapsed, now),
     httpStatus |-> httpStatus,
     isError |-> isError,
     error |-> error,
     input |-> Prop(f.replicateOptions, "input"),
     output |-> Undefined,
     stream |-> Undefined,
     predictionId |-> Prop(prediction, "id")]
    @@ TrackingOf(f.posthogParams, Prop(f.posthogParams, "posthogProperties"))

createCapture(f, prediction, isError, error, httpStatus) ==
    [model |-> Str(StringOf(OrElse(OrElse(Prop(f.replicateOptions, "model"),
                                          Prop(f.replicateOptions, "version")),
                                   Str("unknown")))),
     latency |-> Elapsed(f.getElapsed, now),
     httpStatus |-> httpStatus,
     isError |-> isError,
     error |-> error,
     input |-> Prop(f.replicateOptions, "input"),
     output |-> Undefined,
     stream |-> Undefined,
     predictionId |-> Prop(prediction, "id")]
    @@ TrackingOf(f.posthogParams,
                  Spread(Obj(Fields(Prop(f.posthogParams, "posthogProperties"))),
                         Obj("$ai_async_prediction" :> Bool(TRUE))))

\* Faulty variant: the catch block does not rethrow
createPrediction_swallowing(f, settled) ==
    IF settled.kind = "returned"
    THEN Settle(f, settled, Returned(settled.value),
                createCapture(f, settled.value, Bool(FALSE), Undefined, Num(200)))
    ELSE Settle(f, settled, Returned(Undefined),
                createCapture(f, Undefined, Bool(TRUE), settled.value,
                              caughtStatus(settled.value)))

createPrediction(f, settled) ==
    IF settled.kind = "returned"
    THEN Settle(f, settled, Returned(settled.value),
                createCapture(f, settled.value, Bool(FALSE), Undefined, Num(200)))
    ELSE Settle(f, settled, Threw(settled.value),
                createCapture(f, Undefined, Bool(TRUE), settled.value,
                              caughtStatus(settled.value)))

\* The id the Replicate API gives the next prediction it creates
FreshIds == {i \in DOMAIN JobIds : JobIds[i] \notin upstreamJobs}
NextId == JobIds[CHOOSE i \in FreshIds : \A j \in FreshIds : i <= j]

\* What the underlying predictions.create resolves with
CreateResults ==
    {Obj([status |-> Str("starting")])}
    \cup (IF FreshIds = {} THEN {}
          ELSE {Obj([id |-> Str(NextId), status |-> Str("starting")])})

\* The ids a caller asks about: those of predictions that exist, and one
\* that does not (the ids that do not exist are all alike)
Targets ==
    {t \in GetTargets : t.v \in upstreamJobs \/ (FreshIds # {} /\ t.v = NextId)}

CreateCall ==
    /\ \E options \in Offered(CreateOptionsSet) :
           Start(Enter(NewFrame("create", Undefined, options)))
    /\ UNCHANGED <<predictionTrackingParams, captureCount, completedCount,
                   upstreamJobs, terminalSeen, createdWith, workload>>

CreateReturn ==
    \E c \in InFlight, result \in CreateResults :
        /\ calls[c].op = "create"
        /\ predictionTrackingParams' =
               storeOnCreate(predictionTrackingParams, Prop(result, "id"),
                             calls[c].posthogParams)
        /\ Finish(c, createPrediction(calls[c], Returned(result)))
        /\ upstreamJobs' = IF Prop(result, "id") = Undefined THEN upstreamJobs
                           ELSE upstreamJobs \cup {Prop(result, "id").v}
        /\ createdWith' = IF Prop(result, "id") = Undefined THEN createdWith
                          ELSE (Prop(result, "id").v :> calls[c].posthogParams)
                               @@ createdWith
        /\ UNCHANGED <<nextCall, now, terminalSeen, workload>>

CreateThrow ==
    \E c \in InFlight, err \in Offered(ThrownValues) :
        /\ calls[c].op = "create"
        /\ Finish(c, createPrediction(calls[c], Threw(err)))
        /\ UNCHANGED <<predictionTrackingParams, nextCall, now, upstreamJobs,
                       terminalSeen, createdWith, workload>>

(***************************************************************************)
(* predictions.get                                                         *)
(***************************************************************************)
\* this.predictionTrackingParams.get(predictionId) || {}
storedParamsOf(map, predictionId) ==
    IF predictionId \in DOMAIN map THEN map[predictionId] ELSE EmptyObj

\* options ? extractPostHogParams(options).posthogParams : {}
providedParamsOf(options) ==
    IF Truthy(options) THEN extractPostHogParams(options).posthogParams ELSE EmptyObj

\* Faulty variant: the spread is the other way round, stored values win
mergeParams_storedWins(storedParams, providedParams) ==
    Spread(providedParams, storedParams)

\* { ...storedParams, ...providedParams }
mergeParams(storedParams, providedParams) == Spread(storedParams, providedParams)

\* getPrediction up to the await of the underlying predictions.get
getEnter(f, map) ==
    LET storedParams == storedParamsOf(map, f.predictionId.v)
    IN  [f EXCEPT !.storedParams = storedParams,
                  !.posthogParams = mergeParams(storedParams, providedParamsOf(f.options)),
                  !.replicateOptions =
                      IF Truthy(f.options)
                      THEN Obj([signal |-> Prop(f.options, "signal")])
                      ELSE Undefined,
                  !.getElapsed = createTimer]

\* The statuses after which a prediction no longer changes
TerminalStatuses == {Str("succeeded"), Str("failed"), Str("canceled")}

\* Faulty variant: whatever is not known to be running is taken for final
isCompleted_unlessRunning(status) ==
    status # Str("starting") /\ status # Str("processing")

\* Faulty variant: "canceled" is not taken for a final status
isCompleted_withoutCanceled(status) ==
    status = Str("succeeded") \/ status = Str("failed")

isCompleted(status) ==
    status = Str("succeeded") \/ status = Str("failed") \/ status = Str("canceled")

\* Faulty variant: the entry is deleted whatever the status
storeOnGet_always(map, predictionId, status) ==
    [k \in DOMAIN map \ {predictionId} |-> map[k]]

\* The Map after the cleanup in getPrediction's finally block
storeOnGet(map, predictionId, status) ==
    IF isCompleted(status)
    THEN [k \in DOMAIN map \ {predictionId} |-> map[k]]
    ELSE map

\* Faulty variant: a failed prediction is not reported as an error
getCapture_fetchErrorOnly(f, prediction, isError, error, httpStatus) ==
    LET status == Prop(prediction, "status")
    IN  [model |-> Str(StringOf(OrElse(OrElse(Prop(prediction, "model"),
                                              Prop(prediction, "version")),
                                       Str("unknown")))),
         latency |-> Elapsed(f.getElapsed, now),
         httpStatus |-> httpStatus,
         isError |-> isError,
         error |-> OrElse(error, IF status = Str("failed")
                                 THEN Prop(prediction, "error") ELSE Undefined),
         input |-> Prop(prediction, "input"),
         output |-> IF status = Str("succeeded")
                    THEN Prop(prediction, "output") ELSE Undefined,
         stream |-> Undefined,
         predictionId |-> f.predictionId]
        @@ TrackingOf(f.posthogParams,
                      Spread(Obj(Fields(Prop(f.posthogParams, "posthogProperties"))),
                             Obj(("$ai_prediction_status" :> status)
                                 @@ ("$ai_prediction_get" :> Bool(TRUE))
                                 @@ ("$ai_prediction_completed"
                                        :> Bool(isCompleted(status))))))

\* Faulty variant: the output is passed on whatever the status
getCapture_anyOutput(f, prediction, isError, error, httpStatus) ==
    LET status == Prop(prediction, "status")
    IN  [model |-> Str(StringOf(OrElse(OrElse(Prop(prediction, "model"),
                                              Prop(prediction, "version")),
                                       Str("unknown")))),
         latency |-> Elapsed(f.getElapsed, now),
         httpStatus |-> httpStatus,
         isError |-> Bool(Truthy(isError) \/ status = Str("failed")),
         error |-> OrElse(error, IF status = Str("failed")
                                 THEN Prop(prediction, "error") ELSE Undefined),
         input |-> Prop(prediction, "input"),
         output |-> Prop(prediction, "output"),
         stream |-> Undefined,
         predictionId |-> f.predictionId]
        @@ TrackingOf(f.posthogParams,
                      Spread(Obj(Fields(Prop(f.posthogParams, "posthogProperties"))),
                             Obj(("$ai_prediction_status" :> status)
                                 @@ ("$ai_prediction_get" :> Bool(TRUE))
                                 @@ ("$ai_prediction_completed"
                                        :> Bool(isCompleted(status))))))

\* Faulty variant: the version is preferred to the model
getCapture_versionFirst(f, prediction, isError, error, httpStatus) ==
    LET status == Prop(prediction, "status")
    IN  [model |-> Str(StringOf(OrElse(OrElse(Prop(prediction, "version"),
                                              Prop(prediction, "model")),
                                       Str("unknown")))),
         latency |-> Elapsed(f.getElapsed, now),
         httpStatus |-> httpStatus,
         isError |-> Bool(Truthy(isError) \/ status = Str("failed")),
         error |-> OrElse(error, IF status = Str("failed")
                                 THEN Prop(prediction, "error") ELSE Undefined),
         input |-> Prop(prediction, "input"),
         output |-> IF status = Str("succeeded")
                    THEN Prop(prediction, "output") ELSE Undefined,
         stream |-> Undefined,
         predictionId |-> f.predictionId]
        @@ TrackingOf(f.posthogParams,
                      Spread(Obj(Fields(Prop(f.posthogParams, "posthogProperties"))),
                             Obj(("$ai_prediction_status" :> status)
                                 @@ ("$ai_prediction_get" :> Bool(TRUE))
                                 @@ ("$ai_prediction_completed"
                                        :> Bool(isCompleted(status))))))

getCapture(f, prediction, isError, error, httpStatus) ==
    LET status == Prop(prediction, "status")
    IN  [model |-> Str(StringOf(OrElse(OrElse(Prop(prediction, "model"),
                                              Prop(prediction, "version")),
                                       Str("unknown")))),
         latency |-> Elapsed(f.getElapsed, now),
         httpStatus |-> httpStatus,
         isError |-> Bool(Truthy(isError) \/ status = Str("failed")),
         error |-> OrElse(error, IF status = Str("failed")
                                 THEN Prop(prediction, "error") ELSE Undefined),
         input |-> Prop(prediction, "input"),
         output |-> IF status = Str("succeeded")
                    THEN Prop(prediction, "output") ELSE Undefined,
         stream |-> Undefined,
         predictionId |-> f.predictionId]
        @@ TrackingOf(f.posthogParams,
                      Spread(Obj(Fields(Prop(f.posthogParams, "posthogProperties"))),
                             Obj(("$ai_prediction_status" :> status)
                                 @@ ("$ai_prediction_get" :> Bool(TRUE))
                                 @@ ("$ai_prediction_completed"
                                        :> Bool(isCompleted(status))))))

getPrediction(f, settled) ==
    IF settled.kind = "returned"
    THEN Settle(f, settled, Returned(settled.value),
                getCapture(f, settled.value, Bool(FALSE), Undefined, Num(200)))
    ELSE Settle(f, settled, Threw(settled.value),
                getCapture(f, Undefined, Bool(TRUE), settled.value,
                           caughtStatus(settled.value)))

GetCall ==
    /\ \E predictionId \in Offered(Targets), options \in Offered(GetOptionsSet) :
           Start(getEnter([NewFrame("get", Undefined, options)
                              EXCEPT !.predictionId = predictionId,
                                     !.terminalAtStart = predictionId.v \in terminalSeen],
                          predictionTrackingParams))
    /\ UNCHANGED <<predictionTrackingParams, captureCount, completedCount,
                   upstreamJobs, terminalSeen, createdWith, workload>>

GetReturn ==
    \E c \in InFlight :
        /\ calls[c].op = "get"
        /\ calls[c].predictionId.v \in upstreamJobs
        /\ \E result \in Offered(GetRecords(calls[c].predictionId.v)) :
            /\ predictionTrackingParams' =
                   storeOnGet(predictionTrackingParams, calls[c].predictionId.v,
                              Prop(result, "status"))
            /\ terminalSeen' =
                   IF Prop(result, "status") \in TerminalStatuses
                   THEN terminalSeen \cup {calls[c].predictionId.v}
                   ELSE terminalSeen
            /\ Finish(c, getPrediction(calls[c], Returned(result)))
        /\ UNCHANGED <<nextCall, now, upstreamJobs, createdWith, workload>>

\* prediction stays undefined, so the status the finally block reads is too
GetThrow ==
    \E c \in InFlight, err \in Offered(ThrownValues) :
        /\ calls[c].op = "get"
        /\ predictionTrackingParams' =
               storeOnGet(predictionTrackingParams, calls[c].predictionId.v,
                          Prop(Undefined, "status"))
        /\ Finish(c, getPrediction(calls[c], Threw(err)))
        /\ UNCHANGED <<nextCall, now, upstreamJobs, terminalSeen, createdWith,
                       workload>>

(***************************************************************************)
(* predictions.cancel and predictions.list: the constructor replaces only   *)
(* predictions.create and predictions.get, so these are the underlying      *)
(* client's own methods and no code of the wrapper runs for them.           *)
(***************************************************************************)
\* Faulty variant: the call is wrapped like predictions.get
passThrough_tracked(f, settled) ==
    Settle(f, settled, settled,
           getCapture(f, IF settled.kind = "returned" THEN settled.value ELSE Undefined,
                      Bool(settled.kind = "threw"),
                      IF settled.kind = "threw" THEN settled.value ELSE Undefined,
                      Num(200)))

\* The frame of a call to a method the wrapper leaves alone, once it settles
passThrough(f, settled) ==
    [f EXCEPT !.pc = "done", !.client = settled, !.outcome = settled]

\* What the underlying predictions.cancel and predictions.list settle with
PassThroughResults(f) ==
    IF f.op = "list"
    THEN {Returned(Obj([results |-> Arr(<<>>)]))}
    ELSE IF f.predictionId.v \in upstreamJobs
         THEN {Returned(Obj([id |-> f.predictionId, status |-> Str("canceled")]))}
         ELSE {Threw(ErrStatus)}

CancelCall ==
    /\ \E predictionId \in Offered(Targets) :
           Start([NewFrame("cancel", Undefined, Undefined)
                     EXCEPT !.predictionId = predictionId])
    /\ UNCHANGED <<predictionTrackingParams, captureCount, completedCount,
                   upstreamJobs, terminalSeen, createdWith, workload>>

ListCall ==
    /\ Start(NewFrame("list", Undefined, Undefined))
    /\ UNCHANGED <<predictionTrackingParams, captureCount, completedCount,
                   upstreamJobs, terminalSeen, createdWith, workload>>

PassThroughSettle ==
    \E c \in InFlight :
        /\ calls[c].op \in {"cancel", "list"}
        /\ \E settled \in PassThroughResults(calls[c]) :
               Step(c, passThrough(calls[c], settled))
        /\ UNCHANGED <<predictionTrackingParams, nextCall, captureCount,
                       completedCount, now, upstreamJobs, terminalSeen, createdWith,
                       workload>>

(***************************************************************************)
(* A collector whose capture throws: captureGeneration calls                *)
(* posthog.capture in no try block, and the wrapper calls captureGeneration *)
(* in its finally block, so what capture throws replaces the return value   *)
(* or the exception the method was about to settle with.                    *)
(***************************************************************************)
CaptureFailure ==
    ErrorObj([name |-> Str("Error"), message |-> Str("capture failed"),
              stack |-> Str("Error: capture failed")])

\* The frame of a method whose finally block was left by capture throwing
captureThrows(frame) == [frame EXCEPT !.outcome = Threw(CaptureFailure)]

\* How an underlying call that returns result may settle
Settlements(result) ==
    {Returned(result)} \cup {Threw(err) : err \in Offered(ThrownValues)}

RunCaptureThrows ==
    \E c \in InFlight, settled \in Settlements(RunResult) :
        /\ calls[c].op = "run"
        /\ Finish(c, captureThrows(run(calls[c], settled)))
        /\ UNCHANGED <<predictionTrackingParams, nextCall, now, upstreamJobs,
                       terminalSeen, createdWith, workload>>

StreamCaptureThrows ==
    \E c \in InFlight, how \in {"ended", "threw", "closed"} :
        /\ calls[c].op = "stream"
        /\ calls[c].pc = (IF how = "closed" THEN "yielded" ELSE "awaiting")
        /\ Finish(c, captureThrows(streamLeave(calls[c], how,
                                               IF how = "threw" THEN ErrApi
                                               ELSE Undefined)))
        /\ UNCHANGED <<predictionTrackingParams, nextCall, now, upstreamJobs,
                       terminalSeen, createdWith, workload>>

CreateCaptureThrows ==
    \E c \in InFlight, result \in CreateResults :
        \E settled \in Settlements(result) :
            LET id == IF settled.kind = "returned" THEN Prop(result, "id")
                      ELSE Undefined
            IN  /\ calls[c].op = "create"
                /\ predictionTrackingParams' =
                       storeOnCreate(predictionTrackingParams, id,
                                     calls[c].posthogParams)
                /\ Finish(c, captureThrows(createPrediction(calls[c], settled)))
                /\ upstreamJobs' = IF id = Undefined THEN upstreamJobs
                                   ELSE upstreamJobs \cup {id.v}
                /\ createdWith' = IF id = Undefined THEN createdWith
                                  ELSE (id.v :> calls[c].posthogParams) @@ createdWith
                /\ UNCHANGED <<nextCall, now, terminalSeen, workload>>

GetCaptureThrows ==
    \E c \in InFlight :
        /\ calls[c].op = "get"
        /\ calls[c].predictionId.v \in upstreamJobs
        /\ \E result \in Offered(GetRecords(calls[c].predictionId.v)) :
            \E settled \in Settlements(result) :
                LET status == IF settled.kind = "returned"
                              THEN Prop(result, "status") ELSE Undefined
                IN  /\ predictionTrackingParams' =
                           storeOnGet(predictionTrackingParams,
                                      calls[c].predictionId.v, status)
                    /\ terminalSeen' =
                           IF status \in TerminalStatuses
                           THEN terminalSeen \cup {calls[c].predictionId.v}
                           ELSE terminalSeen
                    /\ Finish(c, captureThrows(getPrediction(calls[c], settled)))
        /\ UNCHANGED <<nextCall, now, upstreamJobs, createdWith, workload>>

(***************************************************************************)
(* The clock and the specification.                                        *)
(***************************************************************************)
Tick ==
    /\ workload \notin Concurrent
    /\ InFlight # {}
    /\ now < MaxTime
    /\ now' = now + 1
    /\ calls' = Live
    /\ UNCHANGED <<predictionTrackingParams, nextCall, captureCount,
                   completedCount, upstreamJobs, terminalSeen, createdWith, workload>>

Init ==
    /\ predictionTrackingParams = <<>>
    /\ calls = <<>>
    /\ nextCall = 0
    /\ captureCount = 0
    /\ completedCount = 0
    /\ now = 0
    /\ upstreamJobs = {}
    /\ createdWith = <<>>
    /\ terminalSeen = {}
    /\ workload \in Workloads

Next ==
    \/ RunCall \/ RunReturn \/ RunThrow
    \/ StreamCall \/ StreamPull \/ StreamChunk \/ StreamEnd \/ StreamThrow
    \/ StreamClose \/ StreamDrop
    \/ CreateCall \/ CreateReturn \/ CreateThrow
    \/ GetCall \/ GetReturn \/ GetThrow
    \/ CancelCall \/ ListCall \/ PassThroughSettle
    \/ Tick

Spec == Init /\ [][Next]_vars

\* Streams whose consumer keeps pulling (it never closes a stream) and whose
\* upstream answers every pull and is finite (at most MaxChunks chunks)
InitPulled == Init /\ workload = "stream"

NextPulled ==
    \/ StreamCall \/ StreamPull
    \/ StreamChunk \/ StreamEnd \/ StreamThrow
    \/ Tick

SpecPulled ==
    /\ InitPulled
    /\ [][NextPulled]_vars
    /\ WF_vars(StreamPull)
    /\ WF_vars(StreamChunk \/ StreamEnd \/ StreamThrow)

\* The wrapper with a collector whose capture may throw
NextCollectorFails ==
    \/ Next
    \/ RunCaptureThrows \/ StreamCaptureThrows
    \/ CreateCaptureThrows \/ GetCaptureThrows

SpecCollectorFails == Init /\ [][NextCollectorFails]_vars

(***************************************************************************)
(* Properties.                                                             *)
(***************************************************************************)
Settled == {c \in DOMAIN calls : calls[c].pc = "done"}

SettledOf(op) == {c \in Settled : calls[c].op = op}

\* The event a settled call handed to the collector
EventOf(c) == calls[c].events[1]

PropsOf(c) == EventOf(c).properties

\* The keys of the custom properties the caller of call c has in effect
CallerKeys(c) == DOMAIN Fields(Prop(calls[c].posthogParams, "posthogProperties"))

\* The event of call c has key k with value v
Has(c, k, v) == k \in DOMAIN PropsOf(c) /\ PropsOf(c)[k] = v

\* privacy_mode = true was passed to call c
CalledPrivate(c) == Prop(calls[c].options, "posthogPrivacyMode") = Bool(TRUE)

\* C1: every completed run, predictions.create and predictions.get has handed
\* exactly one event to posthog.capture, a call in flight none, whether the
\* underlying call returned or threw; the number of captured events equals the
\* number of completed calls.
C1_OneEventPerCall ==
    /\ \A c \in DOMAIN calls :
          calls[c].op \in {"run", "create", "get"}
          => Len(calls[c].events) = (IF c \in Settled THEN 1 ELSE 0)
    /\ captureCount = completedCount

C1_Witness ==
    /\ completedCount = 3
    /\ captureCount = 3
    /\ \E c \in SettledOf("get") : calls[c].client.kind = "threw"

\* C2 (as claimed): every run whose underlying call rejects hands the caller
\* that same value and captures exactly one event with is_error = true and an
\* error field, whatever the rejected value.
C2_RunRejectionCaptured ==
    \A c \in SettledOf("run") :
        calls[c].client.kind = "threw"
        => /\ calls[c].outcome = Threw(calls[c].client.value)
           /\ Len(calls[c].events) = 1
           /\ Has(c, "$ai_is_error", Bool(TRUE))
           /\ "$ai_error" \in DOMAIN PropsOf(c)

\* C3 (as claimed): the event of every successful run has is_error = false,
\* http_status = 200, stream = false, the model argument and a non-negative
\* numeric latency, and the caller receives the underlying result.
C3_RunSuccessEvent ==
    \A c \in SettledOf("run") :
        calls[c].client.kind = "returned"
        => /\ Len(calls[c].events) = 1
           /\ Has(c, "$ai_is_error", Bool(FALSE))
           /\ Has(c, "$ai_http_status", Num(200))
           /\ Has(c, "$ai_stream", Bool(FALSE))
           /\ Has(c, "$ai_model", calls[c].model)
           /\ PropsOf(c)["$ai_latency"].type = "number"
           /\ PropsOf(c)["$ai_latency"].v >= 0
           /\ calls[c].outcome = Returned(calls[c].client.value)

\* C3 (amended): the same, for each of these keys that the caller's custom
\* properties do not themselves supply; a key they supply carries their value.
C3_RunSuccessEventUnlessOverridden ==
    \A c \in SettledOf("run") :
        calls[c].client.kind = "returned"
        => /\ Len(calls[c].events) = 1
           /\ calls[c].outcome = Returned(calls[c].client.value)
           /\ \A k \in CallerKeys(c) :
                 Has(c, k, calls[c].posthogParams.fields.posthogProperties.fields[k])
           /\ "$ai_is_error" \notin CallerKeys(c) => Has(c, "$ai_is_error", Bool(FALSE))
           /\ "$ai_http_status" \notin CallerKeys(c) => Has(c, "$ai_http_status", Num(200))
           /\ "$ai_stream" \notin CallerKeys(c) => Has(c, "$ai_stream", Bool(FALSE))
           /\ "$ai_model" \notin CallerKeys(c) => Has(c, "$ai_model", calls[c].model)
           /\ "$ai_latency" \notin CallerKeys(c)
                 => /\ PropsOf(c)["$ai_latency"].type = "number"
                    /\ PropsOf(c)["$ai_latency"].v >= 0

C3_Witness ==
    \E c \in SettledOf("run") :
        /\ calls[c].client = Returned(RunResult)
        /\ CallerKeys(c) = {}
        /\ Has(c, "$ai_http_status", Num(200))
        /\ Has(c, "$ai_latency", Num(1))

\* C4 (as claimed): with privacy_mode = true the event of any operation has
\* neither the input key nor the output_choices key, whatever the outcome and
\* whatever the other tracking parameters, custom properties included.
C4_PrivacyNoInputOutput ==
    \A c \in Settled :
        CalledPrivate(c) /\ Len(calls[c].events) = 1
        => /\ "$ai_input" \notin DOMAIN PropsOf(c)
           /\ "$ai_output_choices" \notin DOMAIN PropsOf(c)

\* C4 (amended): with privacy_mode = true the event has the input key or the
\* output_choices key only when the caller's own custom properties supply that
\* key, and then with the caller's value, never the operation's input or output.
C4_PrivacyUnlessCallerSupplies ==
    \A c \in Settled :
        CalledPrivate(c) /\ Len(calls[c].events) = 1
        => \A k \in {"$ai_input", "$ai_output_choices"} :
              k \in DOMAIN PropsOf(c)
              => /\ k \in CallerKeys(c)
                 /\ PropsOf(c)[k] =
                        calls[c].posthogParams.fields.posthogProperties.fields[k]

C4_Witness ==
    \E c \in SettledOf("get") :
        /\ CalledPrivate(c)
        /\ Prop(calls[c].client.value, "status") = Str("succeeded")
        /\ Prop(calls[c].client.value, "input") # Undefined
        /\ "$ai_input" \notin DOMAIN PropsOf(c)
        /\ "$ai_output_choices" \notin DOMAIN PropsOf(c)

\* C5: the chunks a stream has yielded to its consumer are, in order and in
\* content, the chunks the underlying stream has produced, output-tagged or
\* not; an upstream error reaches the consumer as the same value, after every
\* chunk before it.
C5_StreamRelaysChunks ==
    \A c \in DOMAIN calls :
        calls[c].op = "stream"
        => /\ calls[c].yielded = calls[c].upstream
           /\ calls[c].client.kind = "threw"
                 => calls[c].outcome = Threw(calls[c].client.value)

C5_Witness ==
    \E c \in SettledOf("stream") :
        /\ calls[c].client.kind = "threw"
        /\ calls[c].yielded = <<Chunk("logs", "booting"), Chunk("output", "World")>>

\* The concatenation, in order, of the data of the output-tagged chunks
RECURSIVE OutputOf(_)
OutputOf(chunks) ==
    IF chunks = <<>> THEN ""
    ELSE (IF Prop(Head(chunks), "event") = Str("output")
          THEN Prop(Head(chunks), "data").v ELSE "")
         \o OutputOf(Tail(chunks))

\* The streams consumed until the upstream sequence ended or raised
Consumed == {c \in SettledOf("stream") : calls[c].client.kind \in {"ended", "threw"}}

\* C6 (as claimed): a stream consumed to its end or its error has captured
\* exactly one event, and none while chunks were still being relayed; the event
\* has stream = true and, on normal completion, its output is the concatenation
\* of the data of the output-tagged chunks, absent when that is empty.
C6_StreamEvent ==
    /\ \A c \in DOMAIN calls :
          calls[c].op = "stream" /\ c \notin Settled => calls[c].events = <<>>
    /\ \A c \in Consumed :
          /\ Len(calls[c].events) = 1
          /\ Has(c, "$ai_stream", Bool(TRUE))
          /\ calls[c].client.kind = "ended"
                => IF OutputOf(calls[c].upstream) = ""
                   THEN "$ai_output_choices" \notin DOMAIN PropsOf(c)
                   ELSE Has(c, "$ai_output_choices",
                            formatOutput(Str(OutputOf(calls[c].upstream))))

\* C6 (amended): the same, except that the output is also absent under
\* privacy mode, and that a key the caller's custom properties supply carries
\* the caller's value.
C6_StreamEventUnlessPrivateOrOverridden ==
    /\ \A c \in DOMAIN calls :
          calls[c].op = "stream" /\ c \notin Settled => calls[c].events = <<>>
    /\ \A c \in Consumed :
          /\ Len(calls[c].events) = 1
          /\ \A k \in CallerKeys(c) :
                Has(c, k, calls[c].posthogParams.fields.posthogProperties.fields[k])
          /\ "$ai_stream" \notin CallerKeys(c) => Has(c, "$ai_stream", Bool(TRUE))
          /\ calls[c].client.kind = "ended" /\ "$ai_output_choices" \notin CallerKeys(c)
                => IF OutputOf(calls[c].upstream) = "" \/ CalledPrivate(c)
                   THEN "$ai_output_choices" \notin DOMAIN PropsOf(c)
                   ELSE Has(c, "$ai_output_choices",
                            formatOutput(Str(OutputOf(calls[c].upstream))))

C6_Witness ==
    \E c \in Consumed :
        /\ calls[c].client.kind = "ended"
        /\ calls[c].upstream = <<Chunk("logs", "booting"), Chunk("output", "World")>>
        /\ Has(c, "$ai_stream", Bool(TRUE))
        /\ Has(c, "$ai_output_choices", formatOutput(Str("World")))

\* The tracking parameter named key, with value v, is what the event of the
\* get call c shows
EventShows(c, key, v) ==
    CASE key = "posthogDistinctId" ->
            EventOf(c).distinctId = OrElse(v, Str("anonymous"))
      [] key = "posthogTraceId" ->
            IF Truthy(v) THEN Has(c, "$ai_trace_id", v)
            ELSE "$ai_trace_id" \notin DOMAIN PropsOf(c)
      [] key = "posthogProperties" ->
            \A k \in DOMAIN Fields(v) \ {"$ai_prediction_status", "$ai_prediction_get",
                                          "$ai_prediction_completed"} :
                Has(c, k, v.fields[k])
      [] key = "posthogGroups" ->
            EventOf(c).groups = v
      [] key = "posthogPrivacyMode" ->
            Truthy(v) => \A k \in {"$ai_input", "$ai_output_choices"} :
                            k \in DOMAIN PropsOf(c) => k \in CallerKeys(c)

\* The job of get call c, and whether a create with tracking parameters returned it
JobOf(c) == calls[c].predictionId.v

Tracked(J) == J \in DOMAIN createdWith /\ someTrackingParam(createdWith[J])

\* C7 (as claimed): after a create with tracking parameters returned J, and
\* before any get observed a terminal status for J, the event of every get for
\* J shows the create-time value of each tracking parameter the get call did
\* not itself supply, whether it passed no options, options without tracking
\* parameters, or some other tracking parameter.
C7_GetInheritsCreateParams ==
    \A c \in SettledOf("get") :
        /\ Tracked(JobOf(c))
        /\ calls[c].storedParams # EmptyObj
        /\ ~calls[c].terminalAtStart
        => \A key \in TrackingKeys :
              Prop(calls[c].options, key) = Undefined
              => EventShows(c, key, Prop(createdWith[JobOf(c)], key))

\* C8: the event of a get call shows the get call's own value of every
\* tracking parameter it supplies, also when create supplied another value
\* for it, and an entry of the store always holds the parameters its create
\* call stored: no get has modified it.
C8_GetParamsOverride ==
    /\ \A c \in SettledOf("get") :
          \A key \in TrackingKeys :
              Prop(calls[c].options, key) # Undefined
              => EventShows(c, key, Prop(calls[c].options, key))
    /\ \A J \in DOMAIN predictionTrackingParams :
          Tracked(J) /\ predictionTrackingParams[J] = createdWith[J]

C8_Witness ==
    \E c \in SettledOf("get") :
        /\ Prop(calls[c].options, "posthogDistinctId") = Str("user_789")
        /\ Prop(calls[c].storedParams, "posthogDistinctId") = Str("user_123")
        /\ EventOf(c).distinctId = Str("user_789")
        /\ JobOf(c) \in DOMAIN predictionTrackingParams
        /\ Prop(predictionTrackingParams[JobOf(c)], "posthogDistinctId") = Str("user_123")

\* The get call c supplies no tracking parameter
NoTrackingParams(c) ==
    \A key \in TrackingKeys : Prop(calls[c].options, key) = Undefined

\* C9: once a get has returned a record with status succeeded, failed or
\* canceled for J, the store has no entry for J, and the event of every get
\* for J that starts later and supplies no tracking parameter has the
\* defaults: distinct id "anonymous", no trace id, no groups and none of the
\* create-time custom properties.
C9_TerminalGetPurges ==
    /\ \A J \in terminalSeen : J \notin DOMAIN predictionTrackingParams
    /\ \A c \in SettledOf("get") :
          calls[c].terminalAtStart /\ NoTrackingParams(c)
          => /\ calls[c].storedParams = EmptyObj
             /\ EventOf(c).distinctId = Str("anonymous")
             /\ "$ai_trace_id" \notin DOMAIN PropsOf(c)
             /\ EventOf(c).groups = Undefined
             /\ \A k \in DOMAIN Fields(Prop(createdWith[JobOf(c)], "posthogProperties")) :
                   ~Has(c, k, createdWith[JobOf(c)].fields.posthogProperties.fields[k])

C9_Witness ==
    \E c \in SettledOf("get") :
        /\ calls[c].terminalAtStart
        /\ NoTrackingParams(c)
        /\ Prop(createdWith[JobOf(c)], "posthogDistinctId") = Str("user_123")
        /\ EventOf(c).distinctId = Str("anonymous")
        /\ JobOf(c) \notin DOMAIN predictionTrackingParams

\* Call c is a get that settles in this step with a record whose status is
\* not succeeded, failed or canceled
SettlesUnfinished(c) ==
    /\ c \in InFlight
    /\ calls[c].op = "get"
    /\ c \in DOMAIN calls'
    /\ calls'[c].pc = "done"
    /\ calls'[c].client.kind = "returned"
    /\ Prop(calls'[c].client.value, "status") \notin TerminalStatuses

\* C10: a get that returns a record whose status is not succeeded, failed or
\* canceled (starting, processing, or no status at all) leaves the store as it
\* was, so the next get for the job finds the create-time parameters there.
C10_UnfinishedGetKeepsStore ==
    [][(\E c \in DOMAIN calls : SettlesUnfinished(c))
          => predictionTrackingParams' = predictionTrackingParams]_vars

C10_Witness ==
    /\ completedCount = 3
    /\ \E c \in SettledOf("get") :
          /\ calls[c].client.kind = "returned"
          /\ Prop(calls[c].client.value, "status") = Undefined
          /\ calls[c].storedParams = createdWith[JobOf(c)]
          /\ Tracked(JobOf(c))
          /\ JobOf(c) \in DOMAIN predictionTrackingParams
          /\ predictionTrackingParams[JobOf(c)] = createdWith[JobOf(c)]

\* C11: for stream, create and get, as for run, the caller observes what the
\* underlying client did: a thrown value reaches the caller as that same
\* value, a result is returned as that same value, and a stream that ended
\* has handed on exactly the upstream chunks.
C11_OutcomeIsUnderlying ==
    \A c \in Settled :
        /\ calls[c].client.kind = "threw"
              => calls[c].outcome = Threw(calls[c].client.value)
        /\ calls[c].client.kind = "returned"
              => calls[c].outcome = Returned(calls[c].client.value)
        /\ calls[c].client.kind = "ended"
              => calls[c].outcome.kind = "ended" /\ calls[c].yielded = calls[c].upstream

C11_Witness ==
    /\ \E c \in SettledOf("create") :
          calls[c].client = Threw(ErrApi) /\ calls[c].outcome = Threw(ErrApi)
    /\ \E c \in DOMAIN calls : calls[c].op = "get"

\* C12 (as claimed): when the collector's capture throws during a wrapper
\* operation, the caller still observes the underlying call's own outcome, the
\* result when it succeeded and the error when it failed; the telemetry
\* failure never reaches the caller.
C12_CollectorFailureHidden ==
    \A c \in Settled :
        /\ calls[c].outcome # Threw(CaptureFailure)
        /\ calls[c].client.kind = "returned"
              => calls[c].outcome = Returned(calls[c].client.value)
        /\ calls[c].client.kind = "threw"
              => calls[c].outcome = Threw(calls[c].client.value)

\* The custom property value the caller of call c has in effect for key k
CallerValue(c, k) == calls[c].posthogParams.fields.posthogProperties.fields[k]

\* C13 (as claimed): every create has handed over its one event when the
\* create call itself settles, no get having run; the event never has
\* output_choices, always has the asynchronous-creation flag set to true and,
\* when the create succeeded, has the job identifier the client returned.
C13_CreateEvent ==
    \A c \in SettledOf("create") :
        /\ Len(calls[c].events) = 1
        /\ "$ai_output_choices" \notin DOMAIN PropsOf(c)
        /\ Has(c, "$ai_async_prediction", Bool(TRUE))
        /\ calls[c].client.kind = "returned"
           /\ Prop(calls[c].client.value, "id") # Undefined
              => Has(c, "$ai_prediction_id", Prop(calls[c].client.value, "id"))

\* C13 (amended): the same, except that output_choices and the job identifier
\* carry the caller's value when the caller's custom properties supply that
\* key; the flag is true even when they supply it.
C13_CreateEventUnlessOverridden ==
    \A c \in SettledOf("create") :
        /\ Len(calls[c].events) = 1
        /\ IF "$ai_output_choices" \in CallerKeys(c)
           THEN Has(c, "$ai_output_choices", CallerValue(c, "$ai_output_choices"))
           ELSE "$ai_output_choices" \notin DOMAIN PropsOf(c)
        /\ Has(c, "$ai_async_prediction", Bool(TRUE))
        /\ calls[c].client.kind = "returned"
           /\ Prop(calls[c].client.value, "id") # Undefined
              => Has(c, "$ai_prediction_id",
                     IF "$ai_prediction_id" \in CallerKeys(c)
                     THEN CallerValue(c, "$ai_prediction_id")
                     ELSE Prop(calls[c].client.value, "id"))

C13_Witness ==
    \E c \in SettledOf("create") :
        /\ calls[c].client.kind = "returned"
        /\ Prop(calls[c].client.value, "status") = Str("starting")
        /\ Has(c, "$ai_prediction_id", Str("pred_1"))
        /\ Has(c, "$ai_async_prediction", Bool(TRUE))
        /\ "$ai_output_choices" \notin DOMAIN PropsOf(c)
        /\ terminalSeen = {}
        /\ \A d \in DOMAIN calls : calls[d].op = "create"

\* The status of the record the underlying get of call c returned, if any
StatusOf(c) ==
    IF calls[c].client.kind = "returned"
    THEN Prop(calls[c].client.value, "status") ELSE Undefined

\* The underlying get of call c threw, or returned a failed prediction
GetFailed(c) == calls[c].client.kind = "threw" \/ StatusOf(c) = Str("failed")

\* C14 (as claimed): in the event of a get call is_error is true exactly when
\* the underlying fetch threw or the returned status is "failed", and false in
\* every other case, status canceled included.
C14_GetIsError ==
    \A c \in SettledOf("get") : Has(c, "$ai_is_error", Bool(GetFailed(c)))

\* C14 (amended): the same, unless the custom properties in effect for the get
\* call supply the is_error key, which then carries their value.
C14_GetIsErrorUnlessOverridden ==
    \A c \in SettledOf("get") :
        Has(c, "$ai_is_error",
            IF "$ai_is_error" \in CallerKeys(c) THEN CallerValue(c, "$ai_is_error")
            ELSE Bool(GetFailed(c)))

C14_Witness ==
    \E c \in SettledOf("get") :
        /\ StatusOf(c) = Str("failed")
        /\ Has(c, "$ai_is_error", Bool(TRUE))
        /\ Has(c, "$ai_http_status", Num(200))

\* C15 (as claimed): the event of a get call has output_choices only if the
\* returned status is "succeeded"; for every other status, and when the fetch
\* threw, it has none, even if the returned record carries an output.
C15_GetOutputOnlySucceeded ==
    \A c \in SettledOf("get") :
        "$ai_output_choices" \in DOMAIN PropsOf(c) => StatusOf(c) = Str("succeeded")

\* C15 (amended): the same, unless the custom properties in effect for the get
\* call supply the output_choices key, which then carries their value.
C15_GetOutputUnlessOverridden ==
    \A c \in SettledOf("get") :
        IF "$ai_output_choices" \in CallerKeys(c)
        THEN Has(c, "$ai_output_choices", CallerValue(c, "$ai_output_choices"))
        ELSE "$ai_output_choices" \in DOMAIN PropsOf(c)
                => /\ StatusOf(c) = Str("succeeded")
                   /\ PropsOf(c)["$ai_output_choices"] =
                          formatOutput(Prop(calls[c].client.value, "output"))

C15_Witness ==
    \E c \in SettledOf("get") :
        /\ StatusOf(c) = Str("canceled")
        /\ Prop(calls[c].client.value, "output") # Undefined
        /\ ~Truthy(Prop(calls[c].posthogParams, "posthogPrivacyMode"))
        /\ "$ai_input" \in DOMAIN PropsOf(c)
        /\ "$ai_output_choices" \notin DOMAIN PropsOf(c)

\* The keys the wrapper itself adds to the custom properties of a call
WrapperKeys(op) ==
    CASE op = "create" -> {"$ai_async_prediction"}
      [] op = "get" -> {"$ai_prediction_status", "$ai_prediction_get",
                        "$ai_prediction_completed"}
      [] OTHER -> {}

\* The calls that have handed an event to the collector
Captured == {c \in Settled : Len(calls[c].events) = 1}

\* C16 (as claimed): in the event of every operation, every key of the
\* caller's custom properties carries the caller's value, whatever the
\* wrapper generated for that key.
C16_CallerHasFinalSay ==
    \A c \in Captured : \A k \in CallerKeys(c) : Has(c, k, CallerValue(c, k))

\* C16 (amended): every key of the caller's custom properties carries the
\* caller's value, except the keys the wrapper adds to the custom properties
\* itself (the asynchronous-creation flag of create; the status, status-fetch
\* flag and completed flag of get), which carry the wrapper's value.
C16_CallerHasFinalSayButFlags ==
    \A c \in Captured :
        /\ \A k \in CallerKeys(c) \ WrapperKeys(calls[c].op) :
              Has(c, k, CallerValue(c, k))
        /\ calls[c].op = "create" => Has(c, "$ai_async_prediction", Bool(TRUE))
        /\ calls[c].op = "get"
              => /\ Has(c, "$ai_prediction_status", StatusOf(c))
                 /\ Has(c, "$ai_prediction_get", Bool(TRUE))
                 /\ Has(c, "$ai_prediction_completed",
                        Bool(StatusOf(c) \in TerminalStatuses))

C16_Witness ==
    \E c \in SettledOf("stream") :
        /\ calls[c].client.kind = "threw"
        /\ Has(c, "$ai_is_error", Str("caller"))
        /\ Has(c, "$ai_http_status", Str("caller"))
        /\ Has(c, "$ai_stream", Str("caller"))
        /\ Has(c, "$ai_error", Str("caller"))

\* The tracking parameter named key that is in effect for call c: the one in
\* the call's options, and for get the stored one merged with the call's
InEffect(c, key) ==
    IF calls[c].op = "get"
    THEN IF Prop(calls[c].options, key) # Undefined
         THEN Prop(calls[c].options, key)
         ELSE Prop(calls[c].posthogParams, key)
    ELSE Prop(calls[c].options, key)

C18_ErrorIffIsError ==
    \A c \in Captured :
        "$ai_error" \in DOMAIN PropsOf(c) <=> Has(c, "$ai_is_error", Bool(TRUE))

\* C19 (as claimed): the stream key is present exactly in the events of run
\* (false) and stream (true), and the prediction_id key exactly in the events
\* of create and get, for every outcome of the operation.
C19_StreamAndPredictionKeys ==
    \A c \in Captured :
        /\ calls[c].op = "run" => Has(c, "$ai_stream", Bool(FALSE))
        /\ calls[c].op = "stream" => Has(c, "$ai_stream", Bool(TRUE))
        /\ calls[c].op \in {"create", "get"} => "$ai_stream" \notin DOMAIN PropsOf(c)
        /\ "$ai_prediction_id" \in DOMAIN PropsOf(c) <=> calls[c].op \in {"create", "get"}

\* The job identifier the wrapper has for the event of call c, if any: the
\* argument of get, the id of the record create returned
KnownId(c) ==
    CASE calls[c].op = "get" -> calls[c].predictionId
      [] calls[c].op = "create" /\ calls[c].client.kind = "returned" ->
            Prop(calls[c].client.value, "id")
      [] OTHER -> Undefined

\* C19 (amended): unless the caller's custom properties supply the key, the
\* stream key is present exactly in the events of run (false) and stream
\* (true), and the prediction_id key is present in the event of every get and
\* in the event of a create exactly when the underlying create returned a
\* record with an identifier: a create that failed has none.
C19_KeysWhenKnown ==
    \A c \in Captured :
        /\ IF "$ai_stream" \in CallerKeys(c)
           THEN Has(c, "$ai_stream", CallerValue(c, "$ai_stream"))
           ELSE CASE calls[c].op = "run" -> Has(c, "$ai_stream", Bool(FALSE))
                  [] calls[c].op = "stream" -> Has(c, "$ai_stream", Bool(TRUE))
                  [] OTHER -> "$ai_stream" \notin DOMAIN PropsOf(c)
        /\ IF "$ai_prediction_id" \in CallerKeys(c)
           THEN Has(c, "$ai_prediction_id", CallerValue(c, "$ai_prediction_id"))
           ELSE IF KnownId(c) # Undefined
                THEN Has(c, "$ai_prediction_id", KnownId(c))
                ELSE "$ai_prediction_id" \notin DOMAIN PropsOf(c)

C19_Witness ==
    \E c \in SettledOf("create") :
        /\ calls[c].client = Threw(ErrRateLimit)
        /\ CallerKeys(c) = {}
        /\ Has(c, "$ai_async_prediction", Bool(TRUE))
        /\ "$ai_prediction_id" \notin DOMAIN PropsOf(c)
        /\ "$ai_stream" \notin DOMAIN PropsOf(c)

\* Call c is a cancel or a list that starts or settles in this step
PassesThrough(c) ==
    /\ c \in DOMAIN calls'
    /\ calls'[c].op \in {"cancel", "list"}
    /\ c \in DOMAIN calls => calls[c].pc # calls'[c].pc

\* C20: predictions.cancel and predictions.list add nothing: a call of either
\* hands no event to the collector, and the step in which it starts or settles
\* leaves the store as it was, so cancelling J keeps J's entry.
C20_CancelAndListPassThrough ==
    [][/\ \A c \in DOMAIN calls' :
             calls'[c].op \in {"cancel", "list"} => calls'[c].events = <<>>
       /\ (\E c \in DOMAIN calls' : PassesThrough(c))
             => /\ predictionTrackingParams' = predictionTrackingParams
                /\ captureCount' = captureCount]_vars

C20_Witness ==
    \E c \in Settled :
        /\ calls[c].op = "cancel"
        /\ calls[c].outcome.kind = "returned"
        /\ Prop(calls[c].outcome.value, "status") = Str("canceled")
        /\ calls[c].events = <<>>
        /\ JobOf(c) \in DOMAIN predictionTrackingParams
        /\ predictionTrackingParams[JobOf(c)] = createdWith[JobOf(c)]
        /\ captureCount = 1

\* C21 (as claimed): predictions.get is not tracked: a call of it hands no
\* event to the collector; only run, stream and predictions.create do.
C21_GetNotTracked ==
    /\ \A c \in DOMAIN calls : calls[c].op = "get" => calls[c].events = <<>>
    /\ \A c \in Captured : calls[c].op \in {"run", "stream", "create"}

\* C22: the store has an entry for J only if a create returned J, was given
\* at least one tracking parameter, and no get has seen a terminal status of
\* J since; the entry is what that create was given. A create that fails or
\* is given no tracking parameter, a run and a stream add and change nothing.
C22_StoreEntries ==
    /\ \A J \in DOMAIN predictionTrackingParams :
          /\ J \in DOMAIN createdWith
          /\ \E k \in TrackingKeys : Prop(createdWith[J], k) # Undefined
          /\ predictionTrackingParams[J] = createdWith[J]
          /\ J \notin terminalSeen
    /\ OpsOf(workload) \subseteq {"run", "stream"} => predictionTrackingParams = <<>>

C22_Witness ==
    /\ DOMAIN predictionTrackingParams = {"pred_2"}
    /\ Prop(predictionTrackingParams["pred_2"], "posthogPrivacyMode") = Bool(TRUE)
    /\ "pred_1" \in DOMAIN createdWith
    /\ \A k \in TrackingKeys : Prop(createdWith["pred_1"], k) = Undefined
    /\ \E c \in SettledOf("create") : calls[c].client.kind = "threw"

\* The status the claim names for a thrown value: the first number among the
\* value's status, its statusCode and its response's status, 500 when there is
\* none or the value is not an object
ReferenceStatus(err) ==
    IF err.type # "object" THEN Num(500)
    ELSE IF Prop(err, "status").type = "number" THEN Prop(err, "status")
    ELSE IF Prop(err, "statusCode").type = "number" THEN Prop(err, "statusCode")
    ELSE IF Prop(Prop(err, "response"), "status").type = "number"
         THEN Prop(Prop(err, "response"), "status")
    ELSE Num(500)

\* C23 (as claimed): the event's http_status is 200 when the underlying call
\* succeeded and the reference status of the thrown value when it failed, for
\* every thrown value (events whose custom properties supply the key aside).
C23_HttpStatus ==
    \A c \in Captured :
        "$ai_http_status" \notin CallerKeys(c)
        => Has(c, "$ai_http_status",
               IF calls[c].client.kind = "threw"
               THEN ReferenceStatus(calls[c].client.value)
               ELSE Num(200))

\* C24: whenever the caller of run, stream, predictions.create or
\* predictions.get can observe the error of a failed underlying call, the
\* event of that call has already been handed to the collector, and it is the
\* only one: the capture precedes the rejection.
C24_CaptureBeforeRejection ==
    \A c \in DOMAIN calls :
        /\ calls[c].op \in {"run", "stream", "create", "get"}
        /\ calls[c].outcome.kind = "threw"
        => /\ calls[c].client.kind = "threw"
           /\ Len(calls[c].events) = 1
           /\ captureCount >= Cardinality({d \in DOMAIN calls :
                                              /\ calls[d].op = calls[c].op
                                              /\ calls[d].outcome.kind = "threw"})

C24_Witness ==
    \E c \in SettledOf("stream") :
        /\ calls[c].outcome.kind = "threw"
        /\ Len(calls[c].yielded) >= 1
        /\ Len(calls[c].events) = 1
        /\ captureCount >= 1

\* C25 (as claimed): no event with is_error = true carries output_choices, a
\* stream that raised after relaying output-tagged chunks included (events
\* whose custom properties supply either key aside).
C25_NoOutputOnError ==
    \A c \in Captured :
        /\ Has(c, "$ai_is_error", Bool(TRUE))
        /\ CallerKeys(c) \cap {"$ai_is_error", "$ai_output_choices"} = {}
        => "$ai_output_choices" \notin DOMAIN PropsOf(c)

\* Call c is a get that settles in this step
GetSettles(c) ==
    /\ c \in InFlight
    /\ calls[c].op = "get"
    /\ c \in DOMAIN calls'
    /\ calls'[c].pc = "done"

\* What the claim expects of the step in which get call c settles, given the
\* record the fetch returned (Undefined when it threw)
GetStepAsClaimed(c, record, modelToo) ==
    LET status == Prop(record, "status")
        completed == status \in {Str("succeeded"), Str("failed"), Str("canceled")}
        props == calls'[c].events[1].properties
        model == IF Prop(record, "model") # Undefined THEN Prop(record, "model")
                 ELSE IF Prop(record, "version") # Undefined THEN Prop(record, "version")
                 ELSE Str("unknown")
    IN  /\ Len(calls'[c].events) = 1
        /\ props["$ai_prediction_status"] = status
        /\ props["$ai_prediction_get"] = Bool(TRUE)
        /\ props["$ai_prediction_completed"] = Bool(completed)
        /\ predictionTrackingParams' =
               [J \in DOMAIN predictionTrackingParams
                         \ (IF completed THEN {JobOf(c)} ELSE {})
                   |-> predictionTrackingParams[J]]
        /\ modelToo => props["$ai_model"] = model

\* The record the underlying fetch of get call c has returned in this step
FetchedBy(c) ==
    IF calls'[c].client.kind = "returned" THEN calls'[c].client.value ELSE Undefined

\* C26 (as claimed): the event of every get records the raw status of the
\* returned record, the status-fetch flag true and the completed flag true
\* exactly for succeeded, failed and canceled; the call deletes the store
\* entry of its job exactly when that flag is true; the event's model is the
\* record's model, else its version, else "unknown", as when the fetch threw.
C26_GetEventAndStore ==
    [][\A c \in DOMAIN calls :
          GetSettles(c) => GetStepAsClaimed(c, FetchedBy(c), TRUE)]_vars

\* C26 (amended): the same, except that the model key carries the caller's
\* value when the custom properties in effect for the get call supply it.
C26_GetEventAndStoreUnlessModelSupplied ==
    [][\A c \in DOMAIN calls :
          GetSettles(c)
          => /\ GetStepAsClaimed(c, FetchedBy(c), "$ai_model" \notin CallerKeys(c))
             /\ "$ai_model" \in CallerKeys(c)
                   => calls'[c].events[1].properties["$ai_model"]
                          = CallerValue(c, "$ai_model")]_vars

C26_Witness ==
    /\ \E c \in SettledOf("get") :
          /\ StatusOf(c) = Str("canceled")
          /\ Has(c, "$ai_model", Str("unknown"))
          /\ Has(c, "$ai_prediction_completed", Bool(TRUE))
          /\ calls[c].storedParams = createdWith[JobOf(c)]
          /\ JobOf(c) \notin DOMAIN predictionTrackingParams
    /\ completedCount = 3

\* The five keys of the tracking parameters
FiveTrackingKeys ==
    {"posthogDistinctId", "posthogTraceId", "posthogProperties", "posthogGroups",
     "posthogPrivacyMode"}

\* The options object passed to the underlying client is the caller's minus
\* the tracking keys
StrippedOf(passed, options) ==
    /\ passed.type = "object"
    /\ DOMAIN passed.fields = DOMAIN options.fields \ FiveTrackingKeys
    /\ \A k \in DOMAIN passed.fields : passed.fields[k] = options.fields[k]

\* C27: the options the underlying client receives never contain a tracking
\* parameter: for run, stream and predictions.create they are the caller's
\* options minus the five tracking keys, every other key and value unchanged;
\* for predictions.get they are absent or hold nothing but the signal.
C27_NoTrackingParamsPassedOn ==
    \A c \in DOMAIN calls :
        /\ calls[c].op \in {"run", "create"}
              => StrippedOf(calls[c].replicateOptions, calls[c].options)
        /\ calls[c].op = "stream" /\ calls[c].client.kind # "pending"
              => StrippedOf(calls[c].replicateOptions, calls[c].options)
        /\ calls[c].op = "stream" /\ calls[c].pc \in {"awaiting", "yielded"}
              => StrippedOf(calls[c].replicateOptions, calls[c].options)
        /\ calls[c].op = "get"
              => \/ calls[c].options = Undefined /\ calls[c].replicateOptions = Undefined
                 \/ /\ calls[c].options # Undefined
                    /\ DOMAIN calls[c].replicateOptions.fields = {"signal"}
                    /\ calls[c].replicateOptions.fields["signal"]
                           = Prop(calls[c].options, "signal")

C27_Witness ==
    \E c \in SettledOf("run") :
        /\ DOMAIN calls[c].options.fields \cap FiveTrackingKeys # {}
        /\ DOMAIN calls[c].replicateOptions.fields = {"input", "webhook"}
        /\ calls[c].client.kind = "returned"

\* C28: when the upstream ends or raises after finitely many chunks and the
\* consumer keeps pulling, every stream eventually ends or raises with its one
\* event captured; once it has, a further pull changes nothing: no chunk is
\* yielded and no event is captured.
C28_StreamTerminates ==
    /\ \A c \in 1..MaxCalls :
          (c \in DOMAIN calls /\ calls[c].pc # "done")
          ~> (/\ c \in DOMAIN calls
              /\ calls[c].pc = "done"
              /\ calls[c].outcome.kind \in {"ended", "threw"}
              /\ Len(calls[c].yielded) = Len(calls[c].upstream)
              /\ Len(calls[c].events) = 1)
    /\ [][/\ \A c \in DOMAIN calls :
                calls[c].pc = "done" /\ c \in DOMAIN calls' => calls'[c] = calls[c]
          /\ captureCount' # captureCount
                => /\ captureCount' = captureCount + 1
                   /\ \E c \in InFlight : c \in DOMAIN calls' /\ calls'[c].pc = "done"]_vars

C28_Witness ==
    /\ nextCall = MaxCalls
    /\ captureCount = MaxCalls
    /\ \E c \in SettledOf("stream") :
          /\ calls[c].outcome.kind = "ended"
          /\ Len(calls[c].yielded) = MaxChunks
          /\ Len(calls[c].events) = 1

\* The frame call c would have if it ran alone: built from its own arguments,
\* its own start instant and what the underlying client gave it
AloneFrame(c) ==
    LET own == extractPostHogParams(calls[c].options)
    IN  [NewFrame(calls[c].op, calls[c].model, calls[c].options)
            EXCEPT !.posthogParams = own.posthogParams,
                   !.replicateOptions = own.replicateOptions,
                   !.getElapsed = calls[c].getElapsed,
                   !.upstream = calls[c].upstream,
                   !.yielded = calls[c].yielded,
                   !.collectedOutput = OutputOf(calls[c].upstream)]

\* The event call c would emit if it ran alone and settled now
AloneEvent(c) ==
    (CASE calls[c].op = "run" -> run(AloneFrame(c), calls[c].client)
       [] calls[c].op = "create" -> createPrediction(AloneFrame(c), calls[c].client)
       [] calls[c].op = "stream" ->
            streamLeave(AloneFrame(c), calls[c].client.kind, calls[c].client.value)
    ).events[1]

\* C29: however run, stream and predictions.create calls interleave, the event
\* of each is the event it would emit alone: its own model, input, output,
\* error and tracking parameters, and a latency counted from its own start
\* (in the concurrent workloads call c of run or create starts at instant c - 1).
C29_EventIsTheCallsOwn ==
    \A c \in Captured :
        calls[c].op \in {"run", "stream", "create"}
        => /\ EventOf(c) = AloneEvent(c)
           /\ workload \in Concurrent /\ calls[c].op \in {"run", "create"}
                 /\ "$ai_latency" \notin CallerKeys(c)
                 => Has(c, "$ai_latency", Num(now - (c - 1)))

C29_Witness ==
    /\ workload = "interleaved"
    /\ \E c \in SettledOf("run"), d \in InFlight :
          /\ d < c
          /\ calls[d].op = "stream"
          /\ calls[d].pc = "yielded"
          /\ calls[d].posthogParams # calls[c].posthogParams
          /\ EventOf(c).distinctId = Str("anonymous")
          /\ Prop(calls[d].posthogParams, "posthogDistinctId") = Str("user_123")

\* C30: a get whose underlying fetch throws leaves the store unchanged, so the
\* entry of its job, if present, is still present with the create-time
\* parameters, and a get for the job that starts while the entry is present
\* reads exactly those parameters.
C30_FailedGetKeepsStore ==
    [][/\ \A c \in DOMAIN calls :
             GetSettles(c) /\ calls'[c].client.kind = "threw"
             => /\ predictionTrackingParams' = predictionTrackingParams
                /\ JobOf(c) \in DOMAIN predictionTrackingParams
                      => /\ JobOf(c) \in DOMAIN predictionTrackingParams'
                         /\ predictionTrackingParams'[JobOf(c)] = createdWith[JobOf(c)]
       /\ \A c \in DOMAIN calls' \ DOMAIN calls :
             calls'[c].op = "get"
             => calls'[c].storedParams =
                    (IF calls'[c].predictionId.v \in DOMAIN predictionTrackingParams
                     THEN createdWith[calls'[c].predictionId.v]
                     ELSE EmptyObj)]_vars

C30_Witness ==
    /\ completedCount = 3
    /\ \E c \in SettledOf("get") :
          /\ calls[c].client.kind = "threw"
          /\ JobOf(c) \in DOMAIN predictionTrackingParams
          /\ calls[c].storedParams = createdWith[JobOf(c)]
          /\ predictionTrackingParams[JobOf(c)] = createdWith[JobOf(c)]
          /\ Prop(createdWith[JobOf(c)], "posthogDistinctId") = Str("user_123")

\* Call c is the get that in this step is the first to observe a terminal
\* status of its job, whose entry has been in the store since the get started
FirstTerminal(c) ==
    /\ GetSettles(c)
    /\ JobOf(c) \notin terminalSeen
    /\ JobOf(c) \in terminalSeen'
    /\ JobOf(c) \in DOMAIN predictionTrackingParams
    /\ calls[c].storedParams # EmptyObj

\* C31 (as claimed): the get that first observes a terminal status of J
\* deletes the entry of J and still emits its event with the create-time
\* tracking parameters of J, each replaced by the call's own value where the
\* call supplies one; a get that starts after the deletion finds no stored
\* parameters.
C31_FirstTerminalGetKeepsParams ==
    [][/\ \A c \in DOMAIN calls :
             FirstTerminal(c)
             => /\ JobOf(c) \notin DOMAIN predictionTrackingParams'
                /\ Len(calls'[c].events) = 1
                /\ \A key \in TrackingKeys :
                      EventShows(c, key,
                                 IF Prop(calls[c].options, key) # Undefined
                                 THEN Prop(calls[c].options, key)
                                 ELSE Prop(createdWith[JobOf(c)], key))'
       /\ \A c \in DOMAIN calls' \ DOMAIN calls :
             calls'[c].op = "get" /\ calls'[c].predictionId.v \in terminalSeen
             => calls'[c].storedParams = EmptyObj]_vars

\* The event of get call c shows, for every tracking parameter, the call's own
\* value where it supplies one and else the value that was in the store when
\* the call started
ShowsParamsFromStart(c) ==
    \A key \in TrackingKeys :
        EventShows(c, key,
                   IF Prop(calls[c].options, key) # Undefined
                   THEN Prop(calls[c].options, key)
                   ELSE Prop(calls[c].storedParams, key))

\* Get call c has overlapped another call for its job: a get for the job is
\* still in flight, or the store's entry for the job is no longer what it was
\* when c started although c itself observed no terminal status
Overlapped(c) ==
    \/ \E d \in InFlight \ {c} : calls[d].op = "get" /\ JobOf(d) = JobOf(c)
    \/ /\ StatusOf(c) \notin TerminalStatuses
       /\ calls[c].storedParams #
              (IF JobOf(c) \in DOMAIN predictionTrackingParams
               THEN predictionTrackingParams[JobOf(c)] ELSE EmptyObj)

\* What C32 says of the state reached by a step
GetsAsClaimed(those) ==
    /\ \A c \in DOMAIN calls :
          calls[c].op = "get"
          => /\ Len(calls[c].events) = (IF calls[c].pc = "done" THEN 1 ELSE 0)
             /\ calls[c].pc = "done" /\ c \in those /\ Overlapped(c)
                   => ShowsParamsFromStart(c)
    /\ \A J \in terminalSeen : J \notin DOMAIN predictionTrackingParams

\* What C32 says of a step: a get that starts reads the entry the store holds
\* at that moment, and a get that observes a terminal status when the entry
\* is already gone leaves the store as it is
GetStepsAsClaimed ==
    /\ \A c \in DOMAIN calls' \ DOMAIN calls :
          calls'[c].op = "get"
          => calls'[c].storedParams =
                 (IF calls'[c].predictionId.v \in DOMAIN predictionTrackingParams
                  THEN predictionTrackingParams[calls'[c].predictionId.v]
                  ELSE EmptyObj)
    /\ \A c \in DOMAIN calls :
          GetSettles(c) /\ JobOf(c) \notin DOMAIN predictionTrackingParams
          => predictionTrackingParams' = predictionTrackingParams

AnyGet == DOMAIN calls

\* C32 (as claimed): with several gets for one job in flight, each get emits
\* exactly one event; the tracking parameters its event shows are those the
\* store held when it started, not those it holds when the get completes; and
\* once a get has observed a terminal status the entry is absent and stays
\* absent, a second deletion changing nothing.
C32_ConcurrentGets ==
    [][GetsAsClaimed(AnyGet)' /\ GetStepsAsClaimed]_vars

\* The streams the consumer closed at a yield, and those it closed before the
\* first pull
ClosedEarly == {c \in SettledOf("stream") : calls[c].client.kind = "closed"}

NeverPulled ==
    {c \in SettledOf("stream") : calls[c].client.kind = "pending"}

\* A generator that was never pulled has run no statement of stream: the
\* underlying client was not called and nothing was captured
Untouched(c) ==
    /\ calls[c].replicateOptions = Undefined
    /\ calls[c].upstream = <<>>
    /\ calls[c].yielded = <<>>
    /\ calls[c].events = <<>>

\* C33 (as claimed): a stream closed by its consumer after k chunks has
\* captured exactly one event, with stream = true, is_error = false,
\* http_status = 200 and the concatenation of the output-tagged chunks relayed
\* so far as its output (none when that is empty); a stream that was created
\* and never pulled has called the underlying client zero times and captured
\* zero events.
C33_EarlyClose ==
    /\ \A c \in ClosedEarly :
          /\ Len(calls[c].events) = 1
          /\ Len(calls[c].yielded) >= 1
          /\ Has(c, "$ai_stream", Bool(TRUE))
          /\ Has(c, "$ai_is_error", Bool(FALSE))
          /\ Has(c, "$ai_http_status", Num(200))
          /\ IF OutputOf(calls[c].yielded) = ""
             THEN "$ai_output_choices" \notin DOMAIN PropsOf(c)
             ELSE Has(c, "$ai_output_choices", formatOutput(Str(OutputOf(calls[c].yielded))))
    /\ \A c \in NeverPulled : Untouched(c)
    /\ captureCount = completedCount

\* C33 (amended): the same, except that a key the caller's custom properties
\* supply carries the caller's value, and that the output is absent under
\* privacy mode.
C33_EarlyCloseUnlessPrivateOrOverridden ==
    /\ \A c \in ClosedEarly :
          /\ Len(calls[c].events) = 1
          /\ Len(calls[c].yielded) >= 1
          /\ \A k \in CallerKeys(c) : Has(c, k, CallerValue(c, k))
          /\ "$ai_stream" \notin CallerKeys(c) => Has(c, "$ai_stream", Bool(TRUE))
          /\ "$ai_is_error" \notin CallerKeys(c) => Has(c, "$ai_is_error", Bool(FALSE))
          /\ "$ai_http_status" \notin CallerKeys(c) => Has(c, "$ai_http_status", Num(200))
          /\ "$ai_output_choices" \notin CallerKeys(c)
                => IF OutputOf(calls[c].yielded) = "" \/ CalledPrivate(c)
                   THEN "$ai_output_choices" \notin DOMAIN PropsOf(c)
                   ELSE Has(c, "$ai_output_choices",
                            formatOutput(Str(OutputOf(calls[c].yielded))))
    /\ \A c \in NeverPulled : Untouched(c)
    /\ captureCount = completedCount

C33_Witness ==
    /\ \E c \in ClosedEarly :
          /\ Len(calls[c].yielded) = 1
          /\ OutputOf(calls[c].yielded) # ""
          /\ ~CalledPrivate(c)
          /\ CallerKeys(c) = {"custom_field"}
          /\ Has(c, "$ai_output_choices", formatOutput(Str(OutputOf(calls[c].yielded))))
    /\ captureCount = 2
    /\ nextCall = 3

\* Get call c is for a job whose create was called with privacy mode true and
\* had returned when c started, and c does not supply privacy mode itself
PrivateJobGet(c) ==
    /\ JobOf(c) \in DOMAIN createdWith
    /\ Prop(createdWith[JobOf(c)], "posthogPrivacyMode") = Bool(TRUE)
    /\ calls[c].storedParams # EmptyObj \/ calls[c].terminalAtStart
    /\ Prop(calls[c].options, "posthogPrivacyMode") = Undefined

\* C34 (as claimed): when the create of J was called with privacy_mode = true
\* and a get for J does not supply privacy_mode itself, the event of that get
\* contains neither the fetched input nor the fetched output, before, at and
\* after the get that observes a terminal status (keys the custom properties
\* in effect supply aside).
C34_PrivacyAcrossGets ==
    \A c \in SettledOf("get") :
        PrivateJobGet(c)
        => \A k \in {"$ai_input", "$ai_output_choices"} :
              k \in DOMAIN PropsOf(c) => k \in CallerKeys(c)

====
